---- MODULE Spec2Model ----
(***************************************************************************)
(* Trainer callbacks of axolotl (src/axolotl/utils/callbacks.py).          *)
(*                                                                         *)
(* Each callback class is modelled as its own state machine over its own   *)
(* variables, with its own specification:                                  *)
(*   SpecBench     BenchEvalCallback.on_evaluate on world_size ranks       *)
(*   SpecRunPod    RunPodCallback driven by the trainer's events           *)
(*   SpecSaveBT    SaveBetterTransformerModelCallback.on_step_end          *)
(*   SpecEvalFirst EvalFirstStepCallback.on_step_end                       *)
(*   SpecWandB     SaveAxolotlConfigtoWandBCallback.on_train_begin         *)
(* Floating point results (losses, accuracies) are exact rationals, kept   *)
(* as reduced pairs <<numerator, denominator>>; NaN is <<0, 0>>.           *)
(***************************************************************************)
EXTENDS Integers, Sequences, FiniteSets, TLC

VARIABLES
    \* ---- BenchEvalCallback: inputs of one evaluation
    world_size,             \* get_world_size()
    distributed,            \* is_distributed()
    batch_size,             \* args.eval_batch_size of the bench data loader
    bench_dataset,          \* the tokenized, filtered benchmark dataset
    batch_loss,             \* loss the model returns for each batch
    \* ---- BenchEvalCallback: per-rank state of on_evaluate
    pc,                     \* where each rank is in on_evaluate
    preds, refs,            \* the rank's preds and refs lists
    loss_bench,             \* the rank's summed batch losses
    len_data_loader,        \* len(data_loader) on the rank
    local_bench_names,      \* the rank's {name: {refs, preds}}
    loss_bench_ranks,       \* gathered on rank 0
    len_data_loader_ranks,  \* gathered on rank 0
    gathered_bench_names,   \* gathered on rank 0
    results,                \* the rank's results dict
    metrics,                \* the rank's metrics dict (argument of on_evaluate)
    error,                  \* the exception on_evaluate raised on the rank, or "none"
    \* ---- the trainer's objects handed to the single-process callbacks
    phase,                  \* where the trainer is in its callback dispatch
    args,                   \* TrainingArguments
    state,                  \* TrainerState
    control,                \* TrainerControl, as the handler leaves it
    control_in,             \* TrainerControl, as it was when the handler was called
    returned,               \* what the handler returned: <<>> before, <<control>> after
    raised,                 \* the exception the handler let escape, or "none"
    \* ---- RunPodCallback
    now,                    \* time.time()
    kwargs_total,           \* kwargs["total_num_training_steps"]: <<>> when absent
    wandb_run,              \* whether wandb.run is set
    last_logged_step, wandb_run_url, total_tracked_steps, current_tracked_steps,
    training_start_time, total_eval_time, last_log_time, self_metrics,
    sent,                   \* the messages passed to runpod.serverless.progress_update
    train_begin_at,         \* when on_train_begin was called
    eval_began_at,          \* when the running evaluation began
    eval_time_spent,        \* the time spent in the evaluations completed so far
    evals,                  \* the number of evaluations the trainer has started
    \* ---- SaveBetterTransformerModelCallback
    save_calls,             \* the folders save_pretrained was called with in this call
    \* ---- SaveAxolotlConfigtoWandBCallback
    is_main,                \* is_main_process()
    failure,                \* which wandb call raises, and what
    wandb_calls,            \* the wandb calls made, in order
    log_records,            \* the records written to LOG
    \* ---- GPUStatsCallback
    logged,                 \* self.logged
    gpu_logs,               \* the calls of on_step_end that logged the GPU memory usage
    steps_seen,             \* state.global_step of every call of on_step_end so far
    \* ---- LogPredictionCallback: inputs of one on_evaluate
    eval_table_size,        \* cfg.eval_table_size
    eval_dataset,           \* the samples of eval_dataloader, each its position ids
    eval_batch_size,        \* the batch size of eval_dataloader
    has_position_ids,       \* whether the batches carry "position_ids"
    table_main,             \* is_main_process()
    \* ---- LogPredictionCallback: state of on_evaluate
    table_pc,               \* where on_evaluate is
    batch_no,               \* the batches of table_dataloader consumed so far
    row_index,              \* row_index of log_table_from_dataloader
    table_rows,             \* the rows added to the wandb.Table
    wandb_logged            \* the tables passed to wandb.run.log

benchInputs == <<world_size, distributed, batch_size, bench_dataset, batch_loss>>
benchVars == <<world_size, distributed, batch_size, bench_dataset, batch_loss,
               pc, preds, refs, loss_bench, len_data_loader, local_bench_names,
               loss_bench_ranks, len_data_loader_ranks, gathered_bench_names,
               results, metrics, error>>

trainerVars == <<phase, args, state, control, control_in, returned, raised>>
runpodVars == <<now, kwargs_total, wandb_run, last_logged_step, wandb_run_url,
                total_tracked_steps, current_tracked_steps, training_start_time,
                total_eval_time, last_log_time, self_metrics, sent,
                train_begin_at, eval_began_at, eval_time_spent, evals>>
saveVars == <<save_calls>>
wandbVars == <<is_main, failure, wandb_calls, log_records>>

gpuVars == <<logged, gpu_logs, steps_seen>>
tableInputs == <<eval_table_size, eval_dataset, eval_batch_size, has_position_ids,
                 table_main>>
tableVars == <<eval_table_size, eval_dataset, eval_batch_size, has_position_ids,
               table_main, table_pc, batch_no, row_index, table_rows, wandb_logged>>

vars == <<benchVars, trainerVars, runpodVars, saveVars, wandbVars, gpuVars, tableVars>>

\* what the steps of one callback leave alone
notBench == <<trainerVars, runpodVars, saveVars, wandbVars, gpuVars, tableVars>>
notRunPod == <<benchVars, saveVars, wandbVars, gpuVars, tableVars>>
notSave == <<benchVars, runpodVars, wandbVars, gpuVars, tableVars>>
notEvalFirst == <<benchVars, runpodVars, saveVars, wandbVars, gpuVars, tableVars>>
notWandB == <<benchVars, runpodVars, saveVars, gpuVars, tableVars>>
notGPUStats == <<benchVars, runpodVars, saveVars, wandbVars, tableVars>>
notTable == <<benchVars, runpodVars, saveVars, wandbVars, gpuVars>>

(***************************************************************************)
(* Bounds of the model.                                                    *)
(***************************************************************************)
MaxExamples == 2
MaxWorld == 2
MaxBatchSize == 2
MaxLoss == 2
MaxSteps == 3
MaxTime == 3
MaxEvals == 2
MaxInterval == 2
MaxCalls == 3
MaxSamples == 3
MaxTableSize == 2

(***************************************************************************)
(* Rationals standing for Python floats.                                   *)
(***************************************************************************)
RECURSIVE GCD(_, _)
GCD(a, b) == IF b = 0 THEN a ELSE GCD(b, a % b)

NaN == <<0, 0>>

\* n / d for n >= 0, d > 0, in lowest terms
Rat(n, d) == LET g == GCD(n, d) IN <<n \div g, d \div g>>

RatAdd(p, q) == Rat(p[1] * q[2] + q[1] * p[2], p[2] * q[2])

\* pd.isna
isna(x) == x[2] = 0

\* str.startswith
startswith(k, prefix) ==
    /\ Len(k) >= Len(prefix)
    /\ SubSeq(k, 1, Len(prefix)) = prefix

\* os.path.join of two parts: an absolute second part replaces the first, and
\* a separator is added only after a non-empty first part that does not end
\* with one
os_path_join(a, p) ==
    IF startswith(p, "/") THEN p
    ELSE IF a = "" \/ SubSeq(a, Len(a), Len(a)) = "/" THEN a \o p
    ELSE a \o "/" \o p

EmptyDict == [k \in {} |-> NaN]

RECURSIVE SumSeq(_)
SumSeq(s) == IF s = <<>> THEN 0 ELSE Head(s) + SumSeq(Tail(s))

Min(a, b) == IF a <= b THEN a ELSE b

(***************************************************************************)
(* The trainer's objects: TrainingArguments, TrainerState, TrainerControl. *)
(***************************************************************************)
\* IntervalStrategy
NO == "no"
STEPS == "steps"
EPOCH == "epoch"
IntervalStrategy == {NO, STEPS, EPOCH}

PREFIX_CHECKPOINT_DIR == "checkpoint"

Controls == [should_training_stop : BOOLEAN, should_epoch_stop : BOOLEAN,
             should_save : BOOLEAN, should_evaluate : BOOLEAN, should_log : BOOLEAN]

DefaultControl == [should_training_stop |-> FALSE, should_epoch_stop |-> FALSE,
                   should_save |-> FALSE, should_evaluate |-> FALSE, should_log |-> FALSE]

\* None of an optional value; a value v is held as <<v>>
None == <<>>

DefaultArgs == [logging_steps |-> 1, evaluation_strategy |-> NO, eval_steps |-> None,
                save_strategy |-> NO, save_steps |-> 0, output_dir |-> "out"]

DefaultState == [global_step |-> 0, max_steps |-> 0, is_world_process_zero |-> TRUE]

(***************************************************************************)
(* The variables of the callbacks a specification does not run.            *)
(***************************************************************************)
BenchIdle ==
    /\ world_size = 0
    /\ distributed = FALSE
    /\ batch_size = 1
    /\ bench_dataset = <<>>
    /\ batch_loss = <<>>
    /\ pc = <<>>
    /\ preds = <<>>
    /\ refs = <<>>
    /\ loss_bench = <<>>
    /\ len_data_loader = <<>>
    /\ local_bench_names = <<>>
    /\ loss_bench_ranks = <<>>
    /\ len_data_loader_ranks = <<>>
    /\ gathered_bench_names = <<>>
    /\ results = <<>>
    /\ metrics = <<>>
    /\ error = <<>>

TrainerIdle ==
    /\ phase = "idle"
    /\ args = DefaultArgs
    /\ state = DefaultState
    /\ control = DefaultControl
    /\ control_in = DefaultControl
    /\ returned = None
    /\ raised = "none"

RunPodIdle ==
    /\ now = 0
    /\ kwargs_total = None
    /\ wandb_run = FALSE
    /\ last_logged_step = None
    /\ wandb_run_url = None
    /\ total_tracked_steps = None
    /\ current_tracked_steps = 0
    /\ training_start_time = 0
    /\ total_eval_time = 0
    /\ last_log_time = 0
    /\ self_metrics = <<>>
    /\ sent = <<>>
    /\ train_begin_at = 0
    /\ eval_began_at = 0
    /\ eval_time_spent = 0
    /\ evals = 0

SaveIdle == save_calls = <<>>

WandBIdle ==
    /\ is_main = TRUE
    /\ failure = [at |-> "none", exc |-> "none"]
    /\ wandb_calls = <<>>
    /\ log_records = <<>>

\* GPUStatsCallback.__init__, lines 219-221
GPUStatsIdle ==
    /\ logged = FALSE
    /\ gpu_logs = <<>>
    /\ steps_seen = <<>>

\* LogPredictionCallback before any on_evaluate
TableIdle ==
    /\ eval_table_size = 0
    /\ eval_dataset = <<>>
    /\ eval_batch_size = 1
    /\ has_position_ids = FALSE
    /\ table_main = TRUE
    /\ table_pc = "idle"
    /\ batch_no = 0
    /\ row_index = 0
    /\ table_rows = <<>>
    /\ wandb_logged = <<>>

(***************************************************************************)
(* bench_eval_callback_factory: constants and the benchmark dataset.       *)
(***************************************************************************)
IGNORE_INDEX == -100

\* token ids of "A".."G"
abcd_idx == <<11, 12, 13, 14, 15, 16, 17>>

\* tokenizer.eos_token, and a token that is no answer letter
eos_token_id == 2
space_token_id == 3

bench_split == "eval"

\* list.index: position (from 0) of the first occurrence
ListIndex(lst, v) == (CHOOSE i \in 1..Len(lst) :
                         lst[i] = v /\ \A j \in 1..(i - 1) : lst[j] # v) - 1

\* tokenize_evals: labels = [IGNORE_INDEX] * len(source) + target tokens;
\* the source here is the bos token alone.
TokenizedLabels == { <<IGNORE_INDEX>> \o t : t \in
                       { <<eos_token_id>>,
                         <<space_token_id, eos_token_id>>,
                         <<abcd_idx[1], eos_token_id>>,
                         <<abcd_idx[2], eos_token_id>>,
                         <<space_token_id, abcd_idx[1], eos_token_id>> } }

\* bench_dataset.filter(lambda x: x["labels"][-2] in abcd_idx)
PassesFilter(labels) ==
    \E i \in 1..Len(abcd_idx) : abcd_idx[i] = labels[Len(labels) - 1]

LabelRows == { l \in TokenizedLabels : PassesFilter(l) }

Names == {"a", "b"}

\* index into abcd_idx the model's logits pick for an example
PredIdx == {0, 1}

Examples == [name : Names, labels : LabelRows, pred : PredIdx]

Datasets == UNION { [1..n -> Examples] : n \in 0..MaxExamples }

(***************************************************************************)
(* trainer.get_bench_dataloader: the batches a rank's loader yields.       *)
(* Batches are consecutive runs of batch_size examples; with N ranks the   *)
(* k-th batch goes to rank k mod N.                                        *)
(***************************************************************************)
NumBatches(n, bs) == (n + bs - 1) \div bs

\* dataset indices (from 1) of global batch k (from 1)
BatchIndices(n, bs, k) ==
    [j \in 1..(Min(k * bs, n) - (k - 1) * bs) |-> (k - 1) * bs + j]

RECURSIVE ShardFrom(_, _, _, _)
ShardFrom(k, nb, r, N) ==
    IF k > nb THEN <<>>
    ELSE IF (k - 1) % N = r THEN <<k>> \o ShardFrom(k + 1, nb, r, N)
    ELSE ShardFrom(k + 1, nb, r, N)

\* the global batch numbers rank r of N processes
get_bench_dataloader(r, N, n, bs) == ShardFrom(1, NumBatches(n, bs), r, N)

Ranks == 0..(world_size - 1)


(***************************************************************************)
(* BenchEvalCallback.on_evaluate, the loop over the rank's batches.        *)
(***************************************************************************)
\* preds.append(argmax(logit_abcd)) for each row of the batch
PredsOfBatch(ds, idx) == [j \in 1..Len(idx) |-> ds[idx[j]].pred]

\* labels[labels != IGNORE_INDEX]: the batch's target tokens, row after row
RECURSIVE FlatLabels(_, _)
FlatLabels(ds, idx) ==
    IF idx = <<>> THEN <<>>
    ELSE SelectSeq(ds[Head(idx)].labels, LAMBDA t : t # IGNORE_INDEX)
             \o FlatLabels(ds, Tail(idx))

\* abcd_idx.index(label) if label in abcd_idx else -1
RefOfLabel(label) ==
    IF \E i \in 1..Len(abcd_idx) : abcd_idx[i] = label
    THEN ListIndex(abcd_idx, label) ELSE -1

\* .view(-1, 2)[:, 0] of the flat labels, each mapped to its answer index
RefsOfLabels(flat) ==
    [j \in 1..(Len(flat) \div 2) |-> RefOfLabel(flat[2 * j - 1])]

\* for batch in data_loader: ... ; view(-1, 2) raises on an odd count
RECURSIVE RunLoop(_, _, _, _, _)
RunLoop(ds, bs, losses, loader, st) ==
    IF loader = <<>> THEN st
    ELSE LET k == Head(loader)
             idx == BatchIndices(Len(ds), bs, k)
             flat == FlatLabels(ds, idx)
         IN  IF Len(flat) % 2 # 0
             THEN [st EXCEPT !.preds = @ \o PredsOfBatch(ds, idx),
                             !.err = "RuntimeError"]
             ELSE RunLoop(ds, bs, losses, Tail(loader),
                          [preds |-> st.preds \o PredsOfBatch(ds, idx),
                           refs |-> st.refs \o RefsOfLabels(flat),
                           loss |-> st.loss + losses[k],
                           err |-> "none"])

\* bench_name = bench_dataset["name"]
BenchNameColumn(ds) == [i \in 1..Len(ds) |-> ds[i].name]

\* for s, p, r in zip(bench_name, preds, refs): file p and r under s
RECURSIVE ZipInto(_, _, _, _, _, _)
ZipInto(names, ps, rs, i, m, acc) ==
    IF i > m THEN acc
    ELSE ZipInto(names, ps, rs, i + 1, m,
                 [acc EXCEPT ![names[i]] =
                     [refs |-> Append(@.refs, rs[i]),
                      preds |-> Append(@.preds, ps[i])]])

ExtractBySubject(names, ps, rs) ==
    ZipInto(names, ps, rs, 1, Min(Len(names), Min(Len(ps), Len(rs))),
            [s \in {names[i] : i \in 1..Len(names)} |->
                [refs |-> <<>>, preds |-> <<>>]])

(***************************************************************************)
(* Collectives of axolotl.utils.distributed and torch.distributed.         *)
(***************************************************************************)
\* gather_scalar_from_all_ranks on the main process: one value per rank
gather_scalar_from_all_ranks(vals, N) == [i \in 1..N |-> vals[i - 1]]

\* dist.gather_object(local, gathered, dst=0), or [local] when not distributed
gather_object(locals, N) == [i \in 1..N |-> locals[i - 1]]

\* broadcast_dict: every rank gets the main process's dict
broadcast_dict(r, vals) == IF distributed THEN vals[0] ELSE vals[r]

(***************************************************************************)
(* BenchEvalCallback.on_evaluate, the main process's scoring.              *)
(***************************************************************************)
\* evaluate's accuracy metric: the fraction of equal pairs, NaN of no pairs
accuracy_compute(references, predictions) ==
    IF Len(references) = 0 THEN NaN
    ELSE Rat(Cardinality({i \in 1..Len(references) :
                              references[i] = predictions[i]}),
             Len(references))

\* np.mean
RECURSIVE RatSum(_)
RatSum(s) == IF s = <<>> THEN <<0, 1>> ELSE RatAdd(Head(s), RatSum(Tail(s)))

np_mean(s) ==
    IF s = <<>> THEN NaN
    ELSE LET t == RatSum(s) IN Rat(t[1], t[2] * Len(s))

\* a merge that assigns a rank's lists instead of extending with them
CombineOne_Assign(acc, bench_name) ==
    [name \in DOMAIN acc \cup DOMAIN bench_name |->
        IF name \in DOMAIN bench_name THEN bench_name[name] ELSE acc[name]]

\* combined_bench_names[name]["refs"/"preds"].extend(data[...]) for one rank
CombineOne(acc, bench_name) ==
    [name \in DOMAIN acc \cup DOMAIN bench_name |->
        LET old == IF name \in DOMAIN acc THEN acc[name]
                   ELSE [refs |-> <<>>, preds |-> <<>>]
            new == IF name \in DOMAIN bench_name THEN bench_name[name]
                   ELSE [refs |-> <<>>, preds |-> <<>>]
        IN  [refs |-> old.refs \o new.refs, preds |-> old.preds \o new.preds]]

\* for bench_name in gathered_bench_names: ...
RECURSIVE CombineAll(_, _)
CombineAll(gathered, acc) ==
    IF gathered = <<>> THEN acc
    ELSE CombineAll(Tail(gathered), CombineOne(acc, Head(gathered)))

AccuracyKey(name) == bench_split \o "_bench_accuracy_" \o name
LossKey == bench_split \o "_bench_loss"
AverageKey == bench_split \o "_bench_average_accuracy"
TotalKey == bench_split \o "_bench_total_accuracy"

\* the score reported for one category: NaN is reported as 0.0
ReportedScore(data) ==
    LET bench_score == accuracy_compute(data.refs, data.preds)
    IN  IF ~isna(bench_score) THEN bench_score ELSE <<0, 1>>

\* a scoring loop that leaves the NaN categories out of bench_scores
RECURSIVE ScoreAll_SkipNaN(_, _, _)
ScoreAll_SkipNaN(combined, todo, st) ==
    IF todo = {} THEN st
    ELSE LET name == CHOOSE n \in todo : TRUE
             data == combined[name]
         IN  ScoreAll_SkipNaN(combined, todo \ {name},
                      [bench_scores |->
                           IF Len(data.refs) = 0 THEN st.bench_scores
                           ELSE Append(st.bench_scores,
                                       Rat(Cardinality({i \in 1..Len(data.refs) :
                                               data.refs[i] = data.preds[i]}),
                                           Len(data.refs))),
                       bench_refs |-> st.bench_refs \o data.refs,
                       bench_preds |-> st.bench_preds \o data.preds])

\* for bench_name in combined_bench_names: the scores and the pooled lists.
\* The order of the names does not change the mean or the pooled accuracy.
RECURSIVE ScoreAll(_, _, _)
ScoreAll(combined, todo, st) ==
    IF todo = {} THEN st
    ELSE LET name == CHOOSE n \in todo : TRUE
             data == combined[name]
         IN  ScoreAll(combined, todo \ {name},
                      [bench_scores |-> Append(st.bench_scores, ReportedScore(data)),
                       bench_refs |-> st.bench_refs \o data.refs,
                       bench_preds |-> st.bench_preds \o data.preds])

\* bench_loss = sum(loss_bench_ranks) / sum(len_data_loader_ranks)
BenchLoss_DividedByRanks(loss_ranks, len_ranks) ==
    Rat(SumSeq(loss_ranks), Len(len_ranks))

BenchLoss(loss_ranks, len_ranks) == Rat(SumSeq(loss_ranks), SumSeq(len_ranks))

\* results of the main process (lines 395-430), given a non-zero batch count
MainResults(loss_ranks, len_ranks, gathered) ==
    LET combined == CombineAll(gathered, [n \in {} |-> [refs |-> <<>>, preds |-> <<>>]])
        st == ScoreAll(combined, DOMAIN combined,
                       [bench_scores |-> <<>>, bench_refs |-> <<>>, bench_preds |-> <<>>])
        keys == {LossKey, AverageKey, TotalKey}
                    \cup {AccuracyKey(n) : n \in DOMAIN combined}
    IN  [k \in keys |->
            IF k = LossKey THEN BenchLoss(loss_ranks, len_ranks)
            ELSE IF k = AverageKey THEN np_mean(st.bench_scores)
            ELSE IF k = TotalKey THEN accuracy_compute(st.bench_refs, st.bench_preds)
            ELSE ReportedScore(combined[CHOOSE n \in DOMAIN combined : AccuracyKey(n) = k])]

\* a write-back that only the main process performs
WriteMetrics_MainOnly(r, m, res) ==
    IF r = 0
    THEN [k \in DOMAIN m \cup DOMAIN res |-> IF k \in DOMAIN res THEN res[k] ELSE m[k]]
    ELSE m

\* for key, val in results.items(): metrics[key] = val
WriteMetrics(r, m, res) ==
    [k \in DOMAIN m \cup DOMAIN res |-> IF k \in DOMAIN res THEN res[k] ELSE m[k]]

(***************************************************************************)
(* BenchEvalCallback.on_evaluate as steps of the ranks.                    *)
(***************************************************************************)
BenchInit ==
    /\ world_size \in 1..MaxWorld
    /\ distributed \in (IF world_size > 1 THEN {TRUE} ELSE BOOLEAN)
    /\ batch_size \in 1..MaxBatchSize
    /\ bench_dataset \in Datasets
    /\ batch_loss \in [1..NumBatches(Len(bench_dataset), batch_size) -> 1..MaxLoss]
    /\ pc = [r \in Ranks |-> "start"]
    /\ preds = [r \in Ranks |-> <<>>]
    /\ refs = [r \in Ranks |-> <<>>]
    /\ loss_bench = [r \in Ranks |-> 0]
    /\ len_data_loader = [r \in Ranks |-> 0]
    /\ local_bench_names = [r \in Ranks |-> EmptyDict]
    /\ loss_bench_ranks = <<>>
    /\ len_data_loader_ranks = <<>>
    /\ gathered_bench_names = <<>>
    /\ results = [r \in Ranks |-> EmptyDict]
    /\ metrics = [r \in Ranks |-> [k \in {"eval_loss"} |-> <<1, 2>>]]
    /\ error = [r \in Ranks |-> "none"]
    /\ TrainerIdle /\ RunPodIdle /\ SaveIdle /\ WandBIdle
    /\ GPUStatsIdle /\ TableIdle

\* lines 344-375: the rank's loop and its filing by subject, up to barrier()
BenchLoop(r) ==
    /\ pc[r] = "start"
    /\ LET loader == get_bench_dataloader(r, world_size, Len(bench_dataset), batch_size)
           st == RunLoop(bench_dataset, batch_size, batch_loss, loader,
                         [preds |-> <<>>, refs |-> <<>>, loss |-> 0, err |-> "none"])
       IN  /\ preds' = [preds EXCEPT ![r] = st.preds]
           /\ refs' = [refs EXCEPT ![r] = st.refs]
           /\ loss_bench' = [loss_bench EXCEPT ![r] = st.loss]
           /\ len_data_loader' = [len_data_loader EXCEPT ![r] = Len(loader)]
           /\ IF st.err # "none"
              THEN /\ error' = [error EXCEPT ![r] = st.err]
                   /\ pc' = [pc EXCEPT ![r] = "raised"]
                   /\ UNCHANGED local_bench_names
              ELSE /\ local_bench_names' = [local_bench_names EXCEPT ![r] =
                          ExtractBySubject(BenchNameColumn(bench_dataset), st.preds, st.refs)]
                   /\ pc' = [pc EXCEPT ![r] = "barrier"]
                   /\ UNCHANGED error
    /\ UNCHANGED <<benchInputs, loss_bench_ranks, len_data_loader_ranks,
                   gathered_bench_names, results, metrics>>
    /\ UNCHANGED notBench

AllAt(label) == \A r \in Ranks : pc[r] = label

\* line 375: barrier() returns once every rank has called it
Barrier ==
    /\ AllAt("barrier")
    /\ pc' = [r \in Ranks |-> "gather_loss"]
    /\ UNCHANGED <<benchInputs, preds, refs, loss_bench, len_data_loader,
                   local_bench_names, loss_bench_ranks, len_data_loader_ranks,
                   gathered_bench_names, results, metrics, error>>
    /\ UNCHANGED notBench

\* lines 380-382
GatherLoss ==
    /\ AllAt("gather_loss")
    /\ loss_bench_ranks' = gather_scalar_from_all_ranks(loss_bench, world_size)
    /\ pc' = [r \in Ranks |-> "gather_len"]
    /\ UNCHANGED <<benchInputs, preds, refs, loss_bench, len_data_loader,
                   local_bench_names, len_data_loader_ranks,
                   gathered_bench_names, results, metrics, error>>
    /\ UNCHANGED notBench

\* lines 383-385
GatherLen ==
    /\ AllAt("gather_len")
    /\ len_data_loader_ranks' = gather_scalar_from_all_ranks(len_data_loader, world_size)
    /\ pc' = [r \in Ranks |-> "gather_object"]
    /\ UNCHANGED <<benchInputs, preds, refs, loss_bench, len_data_loader,
                   local_bench_names, loss_bench_ranks,
                   gathered_bench_names, results, metrics, error>>
    /\ UNCHANGED notBench

\* lines 387-394
GatherObject ==
    /\ AllAt("gather_object")
    /\ gathered_bench_names' = gather_object(local_bench_names, world_size)
    /\ pc' = [r \in Ranks |-> IF r = 0 THEN "compute" ELSE "broadcast"]
    /\ UNCHANGED <<benchInputs, preds, refs, loss_bench, len_data_loader,
                   local_bench_names, loss_bench_ranks, len_data_loader_ranks,
                   results, metrics, error>>
    /\ UNCHANGED notBench

\* rewrite_logs and RunPodCallback.on_log, which Trainer.log reaches
\* k[len(prefix):] for the keys K of d, all of which start with prefix
StripPrefix(d, K, prefix) ==
    [k2 \in {SubSeq(k, Len(prefix) + 1, Len(k)) : k \in K} |->
        d[CHOOSE k \in K : SubSeq(k, Len(prefix) + 1, Len(k)) = k2]]

\* lines 47-58: a key goes to 'eval' when it starts with "eval_", else to
\* 'test' when it starts with "test_", else to 'train'
rewrite_logs(d) ==
    LET evalKeys == {k \in DOMAIN d : startswith(k, "eval_")}
        testKeys == {k \in DOMAIN d \ evalKeys : startswith(k, "test_")}
        trainKeys == DOMAIN d \ (evalKeys \cup testKeys)
    IN  [train |-> [k \in trainKeys |-> d[k]],
         eval |-> StripPrefix(d, evalKeys, "eval_"),
         test |-> StripPrefix(d, testKeys, "test_")]

\* lines 96-103: self.metrics as on_log leaves it
RunPod_on_log_metrics(logs) ==
    IF state.is_world_process_zero THEN rewrite_logs(logs) ELSE self_metrics

\* the trainer's state.epoch when it logs: None before training, else a number
EpochValues == {None, <<<<1, 1>>>>}

\* line 431, trainer.log(logs): Trainer.log writes the epoch, when there is
\* one, into the dict it is given, then calls on_log of every callback
trainer_log(logs, epoch) ==
    IF epoch = None THEN logs
    ELSE [k \in DOMAIN logs \cup {"epoch"} |->
             IF k = "epoch" THEN epoch[1] ELSE logs[k]]

\* lines 395-431 on the main process; epoch is state.epoch, and with_runpod
\* says whether a RunPodCallback is among the trainer's callbacks
MainCompute(epoch, with_runpod) ==
    /\ pc[0] = "compute"
    /\ IF SumSeq(len_data_loader_ranks) = 0
       THEN /\ error' = [error EXCEPT ![0] = "ZeroDivisionError"]
            /\ pc' = [pc EXCEPT ![0] = "raised"]
            /\ UNCHANGED <<results, self_metrics>>
       ELSE LET logs == trainer_log(MainResults(loss_bench_ranks,
                                                len_data_loader_ranks,
                                                gathered_bench_names), epoch)
            IN  /\ results' = [results EXCEPT ![0] = logs]
                /\ self_metrics' = IF with_runpod THEN RunPod_on_log_metrics(logs)
                                   ELSE self_metrics
                /\ pc' = [pc EXCEPT ![0] = "broadcast"]
                /\ UNCHANGED error
    /\ UNCHANGED <<benchInputs, preds, refs, loss_bench, len_data_loader,
                   local_bench_names, loss_bench_ranks, len_data_loader_ranks,
                   gathered_bench_names, metrics>>
    /\ UNCHANGED <<trainerVars, now, kwargs_total, wandb_run, last_logged_step,
                   wandb_run_url, total_tracked_steps, current_tracked_steps,
                   training_start_time, total_eval_time, last_log_time, sent,
                   train_begin_at, eval_began_at, eval_time_spent, evals>>
    /\ UNCHANGED <<saveVars, wandbVars, gpuVars, tableVars>>

\* line 433: broadcast_dict returns once every rank has called it
Broadcast ==
    /\ AllAt("broadcast")
    /\ results' = [r \in Ranks |-> broadcast_dict(r, results)]
    /\ pc' = [r \in Ranks |-> "write"]
    /\ UNCHANGED <<benchInputs, preds, refs, loss_bench, len_data_loader,
                   local_bench_names, loss_bench_ranks, len_data_loader_ranks,
                   gathered_bench_names, metrics, error>>
    /\ UNCHANGED notBench

\* lines 434-435, and on_evaluate returns
BenchReturn(r) ==
    /\ pc[r] = "write"
    /\ metrics' = [metrics EXCEPT ![r] = WriteMetrics(r, metrics[r], results[r])]
    /\ pc' = [pc EXCEPT ![r] = "done"]
    /\ UNCHANGED <<benchInputs, preds, refs, loss_bench, len_data_loader,
                   local_bench_names, loss_bench_ranks, len_data_loader_ranks,
                   gathered_bench_names, results, error>>
    /\ UNCHANGED notBench

BenchNext ==
    \/ \E r \in Ranks : BenchLoop(r)
    \/ Barrier
    \/ GatherLoss
    \/ GatherLen
    \/ GatherObject
    \/ \E epoch \in EpochValues, with_runpod \in BOOLEAN : MainCompute(epoch, with_runpod)
    \/ Broadcast
    \/ \E r \in Ranks : BenchReturn(r)



(***************************************************************************)
(* Properties of BenchEvalCallback.on_evaluate.                            *)
(***************************************************************************)
AllDone == \A r \in Ranks : pc[r] = "done"

\* the main process has computed its results
MainScored == pc[0] \in {"broadcast", "write", "done"}

\* the keys on_evaluate added to the rank's metrics
BenchEntries(r) == DOMAIN metrics[r] \ {"eval_loss"}

RECURSIVE SumOver(_, _)
SumOver(f, S) ==
    IF S = {} THEN 0
    ELSE LET x == CHOOSE y \in S : TRUE IN f[x] + SumOver(f, S \ {x})

RECURSIVE ProdOver(_, _)
ProdOver(f, S) ==
    IF S = {} THEN 1
    ELSE LET x == CHOOSE y \in S : TRUE IN f[x] * ProdOver(f, S \ {x})

NumEqual(a, b) == Cardinality({i \in 1..Len(a) : a[i] = b[i]})

\* C1: once on_evaluate has returned on every rank, every rank's metrics hold
\* the same bench keys with the same values, those of the main process's
\* results (the loss, the per-category accuracies, the average and the total).
C1_MetricsConsistent ==
    AllDone =>
        \A r \in Ranks :
            /\ BenchEntries(r) = DOMAIN results[0]
            /\ {LossKey, AverageKey, TotalKey} \subseteq BenchEntries(r)
            /\ \A k \in BenchEntries(r) : metrics[r][k] = results[0][k]
            /\ \A q \in Ranks : BenchEntries(q) = BenchEntries(r)
            /\ metrics[r]["eval_loss"] = <<1, 2>>

C1_Witness ==
    /\ AllDone
    /\ world_size >= 2
    /\ AccuracyKey("a") \in DOMAIN metrics[1]
    /\ metrics[1][AccuracyKey("a")] = <<1, 2>>
    /\ metrics[1][LossKey] = <<3, 2>>

\* the dataset indices of the examples rank r's loader yields, in order
RECURSIVE ExamplesOf(_, _, _)
ExamplesOf(loader, n, bs) ==
    IF loader = <<>> THEN <<>>
    ELSE BatchIndices(n, bs, Head(loader)) \o ExamplesOf(Tail(loader), n, bs)

RankExamples(r) ==
    ExamplesOf(get_bench_dataloader(r, world_size, Len(bench_dataset), batch_size),
               Len(bench_dataset), batch_size)

\* the reference of an example: the answer letter its labels end with
TrueRef(ex) == RefOfLabel(ex.labels[Len(ex.labels) - 1])

\* the rank's examples of category s, each with its own prediction and reference
AlignedFiling(r) ==
    [s \in {bench_dataset[i].name : i \in 1..Len(bench_dataset)} |->
        LET mine == SelectSeq(RankExamples(r), LAMBDA i : bench_dataset[i].name = s)
        IN  [refs |-> [j \in 1..Len(mine) |-> TrueRef(bench_dataset[mine[j]])],
             preds |-> [j \in 1..Len(mine) |-> bench_dataset[mine[j]].pred]]]

\* every row has the two target tokens the loop expects (line 356)
TwoTokenRows ==
    \A i \in 1..Len(bench_dataset) :
        Len(SelectSeq(bench_dataset[i].labels, LAMBDA t : t # IGNORE_INDEX)) = 2

\* C2: on every rank that has filed its results, preds and refs have one entry
\* per example the rank processed, and every prediction is paired with the
\* reference of its own example and filed under that example's category.
\* Stated for the datasets whose rows have two target tokens, the answer and
\* the eos token.
C2_PairsAligned ==
    TwoTokenRows => \A r \in Ranks :
        pc[r] \notin {"start", "raised"} =>
            /\ Len(preds[r]) = Len(RankExamples(r))
            /\ Len(refs[r]) = Len(preds[r])
            /\ local_bench_names[r] = AlignedFiling(r)

\* the category names any rank reported
ReportedNames == UNION {DOMAIN local_bench_names[r] : r \in Ranks}

\* the pairs rank r filed under name n, and those of them that are correct
PairsOf(n) ==
    [r \in Ranks |-> IF n \in DOMAIN local_bench_names[r]
                     THEN Len(local_bench_names[r][n].preds) ELSE 0]
CorrectOf(n) ==
    [r \in Ranks |-> IF n \in DOMAIN local_bench_names[r]
                     THEN NumEqual(local_bench_names[r][n].preds,
                                   local_bench_names[r][n].refs)
                     ELSE 0]

\* C3: on the main process the accuracy of every reported category is the
\* number of correct pairs over the number of pairs the ranks filed under it,
\* every rank's pairs counted once, and 0.0 for a category without pairs.
C3_CategoryAccuracy ==
    MainScored =>
        \A n \in ReportedNames :
            LET total == SumOver(PairsOf(n), Ranks)
                correct == SumOver(CorrectOf(n), Ranks)
                acc == results[0][AccuracyKey(n)]
            IN  /\ AccuracyKey(n) \in DOMAIN results[0]
                /\ acc[2] > 0
                /\ IF total = 0 THEN acc[1] = 0
                   ELSE acc[1] * total = correct * acc[2]

C3_Witness ==
    /\ MainScored
    /\ world_size >= 2
    /\ \E n \in ReportedNames :
          /\ \A r \in Ranks : PairsOf(n)[r] > 0
          /\ results[0][AccuracyKey(n)] = <<1, 2>>
    /\ \E n \in ReportedNames :
          /\ SumOver(PairsOf(n), Ranks) = 0
          /\ results[0][AccuracyKey(n)] = <<0, 1>>

\* the batch losses of rank r's loader, summed
RECURSIVE LossOf(_)
LossOf(loader) ==
    IF loader = <<>> THEN 0 ELSE batch_loss[Head(loader)] + LossOf(Tail(loader))

RankLoader(r) == get_bench_dataloader(r, world_size, Len(bench_dataset), batch_size)

\* C4: the reported loss is the sum over the ranks of their summed batch
\* losses divided by the sum over the ranks of their batch counts, and the
\* division is defined whenever some rank has a batch.
C4_WeightedLoss ==
    /\ MainScored =>
          LET loss == results[0][LossKey]
          IN  /\ \A r \in Ranks : /\ loss_bench[r] = LossOf(RankLoader(r))
                                  /\ len_data_loader[r] = Len(RankLoader(r))
              /\ loss[2] > 0
              /\ loss[1] * SumOver(len_data_loader, Ranks)
                     = SumOver(loss_bench, Ranks) * loss[2]
    /\ (pc[0] = "raised" /\ error[0] = "ZeroDivisionError") =>
          \A r \in Ranks : len_data_loader[r] = 0
    /\ (pc[0] \in {"compute", "raised"} /\ error[0] = "none"
            /\ \E r \in Ranks : len_data_loader[r] > 0) =>
          SumSeq(len_data_loader_ranks) > 0

C4_Witness ==
    /\ MainScored
    /\ world_size >= 2
    /\ len_data_loader[0] = 1
    /\ len_data_loader[1] = 0
    /\ loss_bench[0] = 2
    /\ results[0][LossKey] = <<2, 1>>

\* the reported accuracy of each category, as numerators and denominators
AccNum == [n \in ReportedNames |-> results[0][AccuracyKey(n)][1]]
AccDen == [n \in ReportedNames |-> results[0][AccuracyKey(n)][2]]

\* the sum of the reported accuracies, over the common denominator
\* ProdOver(AccDen, ReportedNames)
AccSumNum ==
    SumOver([n \in ReportedNames |->
                AccNum[n] * ProdOver(AccDen, ReportedNames \ {n})],
            ReportedNames)

AllPairs == SumOver([n \in ReportedNames |-> SumOver(PairsOf(n), Ranks)], ReportedNames)
AllCorrect == SumOver([n \in ReportedNames |-> SumOver(CorrectOf(n), Ranks)], ReportedNames)

\* C5: the average accuracy is the unweighted mean of the category accuracies
\* of the same results; the total accuracy is the number of correct pairs over
\* the number of pairs, pooled over every category and every rank.
C5_MacroMicro ==
    MainScored =>
        LET avg == results[0][AverageKey]
            tot == results[0][TotalKey]
        IN  /\ DOMAIN results[0] \ {"epoch"} =
                   {LossKey, AverageKey, TotalKey} \cup {AccuracyKey(n) : n \in ReportedNames}
            /\ avg[2] > 0
            /\ avg[1] * Cardinality(ReportedNames) * ProdOver(AccDen, ReportedNames)
                   = AccSumNum * avg[2]
            /\ tot[2] > 0
            /\ tot[1] * AllPairs = AllCorrect * tot[2]

C5_Witness ==
    /\ MainScored
    /\ world_size >= 2
    /\ Cardinality(ReportedNames) = 2
    /\ results[0][AccuracyKey("a")] = <<1, 1>>
    /\ results[0][AccuracyKey("b")] = <<0, 1>>
    /\ results[0][AverageKey] = <<1, 2>>
    /\ results[0][TotalKey] = <<1, 1>>


SpecBench == BenchInit /\ [][BenchNext]_vars

\* Every rank is a running process: a step that is possible is eventually
\* taken.  Every step moves some rank forward and no rank goes back, so a fair
\* behaviour ends in a state where no rank can move.
SpecBenchFair == BenchInit /\ [][BenchNext]_vars /\ WF_vars(BenchNext)

\* on_evaluate is over on the rank: it has returned or it has raised
Over(r) == pc[r] \in {"done", "raised"}

\* C11: in a distributed run every rank goes through the same collectives in
\* the same order, whatever its rank and its shard, so on_evaluate is
\* eventually over on every rank: no rank waits forever in a collective that
\* another rank never joins.

C11_NoRankWaitsForever == distributed => <>(\A r \in Ranks : Over(r))

(***************************************************************************)
(* RunPodCallback.                                                         *)
(***************************************************************************)
\* the logs the trainer passes to on_log
LogsInputs ==
    { [k \in {"loss"} |-> 1],
      [k \in {"eval_loss", "epoch"} |-> 2] }

\* RunPodCallback.__init__, at time 0
RunPodInit ==
    /\ phase = "constructed"
    /\ args \in {[DefaultArgs EXCEPT !.logging_steps = n] : n \in 1..MaxInterval}
    /\ state \in [global_step : {0}, max_steps : 1..MaxSteps,
                  is_world_process_zero : BOOLEAN]
    /\ control = DefaultControl
    /\ control_in = DefaultControl
    /\ returned = None
    /\ raised = "none"
    /\ now = 0
    /\ kwargs_total \in {None, <<MaxSteps>>}
    /\ wandb_run \in BOOLEAN
    /\ last_logged_step = None
    /\ wandb_run_url = None
    /\ total_tracked_steps = None
    /\ current_tracked_steps = 0
    /\ training_start_time = 0
    /\ total_eval_time = 0
    /\ last_log_time = 0
    /\ self_metrics = <<>>
    /\ sent = <<>>
    /\ train_begin_at = 0
    /\ eval_began_at = 0
    /\ eval_time_spent = 0
    /\ evals = 0
    /\ BenchIdle /\ SaveIdle /\ WandBIdle
    /\ GPUStatsIdle /\ TableIdle

\* time passes
Tick ==
    /\ phase # "raised"
    /\ now < MaxTime
    /\ now' = now + 1
    /\ UNCHANGED <<trainerVars, kwargs_total, wandb_run, last_logged_step,
                   wandb_run_url, total_tracked_steps, current_tracked_steps,
                   training_start_time, total_eval_time, last_log_time,
                   self_metrics, sent, train_begin_at, eval_began_at, eval_time_spent,
                   evals>>
    /\ UNCHANGED notRunPod

\* kwargs.get("total_num_training_steps", state.max_steps)
KwargsGetTotal == IF kwargs_total # None THEN kwargs_total ELSE <<state.max_steps>>

\* lines 105-114
RunPod_on_train_begin ==
    /\ phase = "constructed"
    /\ phase' = "training"
    /\ wandb_run_url' = IF wandb_run THEN <<"wandb.run.get_url()">> ELSE wandb_run_url
    /\ IF state.is_world_process_zero
       THEN /\ training_start_time' = now
            /\ total_tracked_steps' = KwargsGetTotal
            /\ last_logged_step' = <<state.global_step>>
       ELSE UNCHANGED <<training_start_time, total_tracked_steps, last_logged_step>>
    /\ train_begin_at' = now
    /\ UNCHANGED <<args, state, control, control_in, returned, raised,
                   now, kwargs_total, wandb_run, current_tracked_steps,
                   total_eval_time, last_log_time, self_metrics, sent,
                   eval_began_at, eval_time_spent, evals>>
    /\ UNCHANGED notRunPod

\* lines 91-103
RunPod_on_log(logs) ==
    /\ phase = "training"
    /\ self_metrics' = RunPod_on_log_metrics(logs)
    /\ UNCHANGED <<trainerVars, now, kwargs_total, wandb_run, last_logged_step,
                   wandb_run_url, total_tracked_steps, current_tracked_steps,
                   training_start_time, total_eval_time, last_log_time, sent,
                   train_begin_at, eval_began_at, eval_time_spent, evals>>
    /\ UNCHANGED notRunPod

\* the progress_content of lines 129-138
ProgressContent(step, elapsed, cur) ==
    [step |-> step,
     total_steps |-> total_tracked_steps[1],
     time_seconds |->
        [elapsed |-> elapsed,
         remaining |-> Rat(elapsed * (total_tracked_steps[1] - cur), cur)],
     metrics |-> self_metrics,
     wandb |-> wandb_run_url]

\* lines 116-141: the trainer has finished step global_step + 1.
\* None - int at line 128 raises TypeError.
RunPod_on_step_end ==
    /\ phase = "training"
    /\ state.global_step < state.max_steps
    /\ LET step == state.global_step + 1
           cur == current_tracked_steps + 1
           training_time_elapsed == now - training_start_time - total_eval_time
       IN  /\ state' = [state EXCEPT !.global_step = step]
           /\ current_tracked_steps' = cur
           /\ IF step % args.logging_steps = 0
              THEN IF total_tracked_steps = None
                   THEN /\ raised' = "TypeError"
                        /\ phase' = "raised"
                        /\ UNCHANGED <<sent, last_log_time>>
                   ELSE /\ sent' = Append(sent, ProgressContent(step, training_time_elapsed, cur))
                        /\ last_log_time' = now
                        /\ UNCHANGED <<raised, phase>>
              ELSE UNCHANGED <<sent, last_log_time, raised, phase>>
    /\ UNCHANGED <<args, control, control_in, returned,
                   now, kwargs_total, wandb_run, last_logged_step, wandb_run_url,
                   total_tracked_steps, training_start_time, total_eval_time,
                   self_metrics, train_begin_at, eval_began_at, eval_time_spent,
                   evals>>
    /\ UNCHANGED notRunPod

\* the trainer starts an evaluation, after a step
EvalBegin ==
    /\ phase = "training"
    /\ state.global_step >= 1
    /\ evals < MaxEvals
    /\ evals' = evals + 1
    /\ phase' = "evaluating"
    /\ eval_began_at' = now
    /\ UNCHANGED <<args, state, control, control_in, returned, raised,
                   now, kwargs_total, wandb_run, last_logged_step, wandb_run_url,
                   total_tracked_steps, current_tracked_steps, training_start_time,
                   total_eval_time, last_log_time, self_metrics, sent,
                   train_begin_at, eval_time_spent>>
    /\ UNCHANGED notRunPod

\* lines 143-145: the evaluation has completed
RunPod_on_evaluate ==
    /\ phase = "evaluating"
    /\ phase' = "training"
    /\ total_eval_time' = total_eval_time + (now - last_log_time)
    /\ eval_time_spent' = eval_time_spent + (now - eval_began_at)
    /\ UNCHANGED <<args, state, control, control_in, returned, raised,
                   now, kwargs_total, wandb_run, last_logged_step, wandb_run_url,
                   total_tracked_steps, current_tracked_steps, training_start_time,
                   last_log_time, self_metrics, sent, train_begin_at, eval_began_at,
                   evals>>
    /\ UNCHANGED notRunPod

RunPodNext ==
    \/ Tick
    \/ RunPod_on_train_begin
    \/ \E logs \in LogsInputs : RunPod_on_log(logs)
    \/ RunPod_on_step_end
    \/ EvalBegin
    \/ RunPod_on_evaluate

SpecRunPod == RunPodInit /\ [][RunPodNext]_vars

\* a call of on_step_end
IsStepEnd == current_tracked_steps' = current_tracked_steps + 1

\* C6: on_step_end sends exactly one update when global_step is a multiple of
\* logging_steps and none otherwise; the update carries global_step as step
\* and the total recorded by on_train_begin as total_steps.
C6_OneUpdatePerLoggingStep ==
    [][IsStepEnd =>
          IF state'.global_step % args.logging_steps = 0
          THEN /\ Len(sent') = Len(sent) + 1
               /\ SubSeq(sent', 1, Len(sent)) = sent
               /\ sent'[Len(sent')].step = state'.global_step
               /\ <<sent'[Len(sent')].total_steps>> = total_tracked_steps
          ELSE sent' = sent]_vars

\* C7: the elapsed training time on_step_end reports is the time since
\* on_train_begin minus the time spent in the evaluations completed so far.
C7_ElapsedExcludesEval ==
    [][(IsStepEnd /\ Len(sent') = Len(sent) + 1) =>
          sent'[Len(sent')].time_seconds.elapsed
              = (now - train_begin_at) - eval_time_spent]_vars

\* C12: on every process, world process zero or not, when on_step_end computes
\* the remaining time (global_step a multiple of logging_steps, on_train_begin
\* has run), total_tracked_steps holds a number and on_step_end does not raise.
C12_TotalStepsIsNumber ==
    [][(IsStepEnd /\ state'.global_step % args.logging_steps = 0) =>
          /\ total_tracked_steps # None
          /\ raised' = "none"
          /\ phase' = "training"]_vars

(***************************************************************************)
(* SaveBetterTransformerModelCallback.                                     *)
(***************************************************************************)
\* os.path.join(args.output_dir, f"{PREFIX_CHECKPOINT_DIR}-{state.global_step}")
CheckpointFolder(output_dir, global_step) ==
    os_path_join(output_dir, PREFIX_CHECKPOINT_DIR \o "-" \o ToString(global_step))

\* an on_step_end that leaves should_save set after saving
SaveBT_Handler_NoReset(a, st, c) ==
    LET c1 == IF /\ a.save_strategy = STEPS
                 /\ a.save_steps > 0
                 /\ st.global_step % a.save_steps = 0
              THEN [c EXCEPT !.should_save = TRUE] ELSE c
    IN  IF c1.should_save
        THEN [control |-> c1,
              save_calls |-> <<CheckpointFolder(a.output_dir, st.global_step)>>]
        ELSE [control |-> c1, save_calls |-> <<>>]

\* lines 183-211: the control the handler leaves and the folders it saved to
SaveBT_Handler(a, st, c) ==
    LET c1 == IF /\ a.save_strategy = STEPS
                 /\ a.save_steps > 0
                 /\ st.global_step % a.save_steps = 0
              THEN [c EXCEPT !.should_save = TRUE] ELSE c
    IN  IF c1.should_save
        THEN [control |-> [c1 EXCEPT !.should_save = FALSE],
              save_calls |-> <<CheckpointFolder(a.output_dir, st.global_step)>>]
        ELSE [control |-> c1, save_calls |-> <<>>]

\* args.output_dir as the user wrote it, with or without a trailing separator
OutputDirs == {"out", "out/"}

SaveBTInit ==
    /\ phase = "idle"
    /\ args \in {[DefaultArgs EXCEPT !.save_strategy = t, !.save_steps = n,
                                     !.output_dir = o] :
                    t \in IntervalStrategy, n \in 0..MaxInterval, o \in OutputDirs}
    /\ state = [DefaultState EXCEPT !.max_steps = MaxSteps]
    /\ control = DefaultControl
    /\ control_in = DefaultControl
    /\ returned = None
    /\ raised = "none"
    /\ save_calls = <<>>
    /\ BenchIdle /\ RunPodIdle /\ WandBIdle
    /\ GPUStatsIdle /\ TableIdle

\* the trainer finishes step global_step + 1 and calls on_step_end with the
\* control c the callbacks before this one have left
SaveBT_on_step_end(c) ==
    /\ phase \in {"idle", "returned"}
    /\ state.global_step < state.max_steps
    /\ LET st == [state EXCEPT !.global_step = @ + 1]
           out == SaveBT_Handler(args, st, c)
       IN  /\ state' = st
           /\ control_in' = c
           /\ control' = out.control
           /\ save_calls' = out.save_calls
           /\ returned' = <<out.control>>
    /\ phase' = "returned"
    /\ UNCHANGED <<args, raised>>
    /\ UNCHANGED notSave

SaveBTNext == \E c \in Controls : SaveBT_on_step_end(c)

SpecSaveBT == SaveBTInit /\ [][SaveBTNext]_vars

\* the names a path is made of, in order: separators, repeated or trailing,
\* name nothing
RECURSIVE PathNamesFrom(_, _, _, _)
PathNamesFrom(path, i, cur, names) ==
    IF i > Len(path) THEN (IF cur = "" THEN names ELSE Append(names, cur))
    ELSE LET ch == SubSeq(path, i, i)
         IN  IF ch = "/"
             THEN PathNamesFrom(path, i + 1, "",
                                IF cur = "" THEN names ELSE Append(names, cur))
             ELSE PathNamesFrom(path, i + 1, cur \o ch, names)

PathNames(path) == PathNamesFrom(path, 1, "", <<>>)

\* C8: when on_step_end returns, should_save is False; the model was saved,
\* once and to <output_dir>/checkpoint-<global_step> (the entry
\* checkpoint-<global_step> of the directory output_dir), exactly when
\* should_save was True on entry or save_strategy is STEPS, save_steps > 0 and
\* global_step is a multiple of save_steps.
C8_SaveAndReset ==
    phase = "returned" =>
        LET due == /\ args.save_strategy = STEPS
                   /\ args.save_steps > 0
                   /\ state.global_step % args.save_steps = 0
        IN  /\ control.should_save = FALSE
            /\ returned = <<control>>
            /\ IF control_in.should_save \/ due
               THEN /\ Len(save_calls) = 1
                    /\ PathNames(save_calls[1]) =
                           Append(PathNames(args.output_dir),
                                  "checkpoint-" \o ToString(state.global_step))
                    /\ startswith(save_calls[1], "/") = startswith(args.output_dir, "/")
               ELSE save_calls = <<>>

C8_Witness ==
    /\ phase = "returned"
    /\ args.output_dir = "out/"
    /\ args.save_strategy = STEPS
    /\ args.save_steps = 2
    /\ state.global_step = 2
    /\ ~control_in.should_save
    /\ save_calls = <<"out/checkpoint-2">>
    /\ ~control.should_save

(***************************************************************************)
(* EvalFirstStepCallback.                                                  *)
(***************************************************************************)
\* eval_steps is a float: a ratio below 1 or a number of steps, held as <<n, d>>
EvalStepsValues == {<<1, 2>>, <<1, 1>>, <<5, 1>>}

\* x < 1.0
LessThanOne(x) == x[1] < x[2]

\* an on_step_end that does not test the step number
EvalFirst_Handler_AnyStep(a, st, c) ==
    IF /\ a.evaluation_strategy = STEPS
       /\ LessThanOne(a.eval_steps)
    THEN [c EXCEPT !.should_evaluate = TRUE]
    ELSE c

\* lines 162-175: the control the handler returns
EvalFirst_Handler(a, st, c) ==
    IF /\ a.evaluation_strategy = STEPS
       /\ LessThanOne(a.eval_steps)
       /\ st.global_step = 1
    THEN [c EXCEPT !.should_evaluate = TRUE]
    ELSE c

\* eval_steps is None only when the strategy is not STEPS
EvalFirstInit ==
    /\ phase = "idle"
    /\ args \in {[DefaultArgs EXCEPT !.evaluation_strategy = t, !.eval_steps = e] :
                    t \in IntervalStrategy, e \in EvalStepsValues}
                \cup {[DefaultArgs EXCEPT !.evaluation_strategy = t] :
                    t \in IntervalStrategy \ {STEPS}}
    /\ state = [DefaultState EXCEPT !.max_steps = MaxSteps]
    /\ control = DefaultControl
    /\ control_in = DefaultControl
    /\ returned = None
    /\ raised = "none"
    /\ BenchIdle /\ RunPodIdle /\ SaveIdle /\ WandBIdle
    /\ GPUStatsIdle /\ TableIdle

\* the trainer finishes step global_step + 1 and calls on_step_end with the
\* control c the callbacks before this one have left
EvalFirst_on_step_end(c) ==
    /\ phase \in {"idle", "returned"}
    /\ state.global_step < state.max_steps
    /\ LET st == [state EXCEPT !.global_step = @ + 1]
           out == EvalFirst_Handler(args, st, c)
       IN  /\ state' = st
           /\ control_in' = c
           /\ control' = out
           /\ returned' = <<out>>
    /\ phase' = "returned"
    /\ UNCHANGED <<args, raised>>
    /\ UNCHANGED notEvalFirst

EvalFirstNext == \E c \in Controls : EvalFirst_on_step_end(c)

SpecEvalFirst == EvalFirstInit /\ [][EvalFirstNext]_vars

\* C9: on_step_end sets should_evaluate to True exactly when
\* evaluation_strategy is STEPS, eval_steps < 1.0 and global_step is 1, and
\* changes no other flag; in every other case it changes no flag at all; it
\* never sets should_evaluate to False.
C9_EvalOnFirstStep ==
    phase = "returned" =>
        LET first == /\ args.evaluation_strategy = STEPS
                     /\ args.eval_steps[1] < args.eval_steps[2]
                     /\ state.global_step = 1
        IN  /\ returned = <<control>>
            /\ first => control = [control_in EXCEPT !.should_evaluate = TRUE]
            /\ ~first => control = control_in
            /\ control_in.should_evaluate => control.should_evaluate

C9_Witness ==
    /\ phase = "returned"
    /\ args.evaluation_strategy = STEPS
    /\ args.eval_steps = <<1, 2>>
    /\ state.global_step = 1
    /\ ~control_in.should_evaluate
    /\ control_in.should_save
    /\ control.should_evaluate
    /\ control.should_save

(***************************************************************************)
(* SaveAxolotlConfigtoWandBCallback.                                       *)
(***************************************************************************)
\* the exceptions the wandb calls may raise, each with its base classes
ExceptionBases ==
    [FileNotFoundError |-> {"FileNotFoundError", "OSError"},
     ConnectionError |-> {"ConnectionError", "OSError"},
     ConnectionResetError |-> {"ConnectionResetError", "ConnectionError", "OSError"},
     PermissionError |-> {"PermissionError", "OSError"}]

Failures ==
    {[at |-> "none", exc |-> "none"]}
        \cup [at : {"add_file", "log_artifact"}, exc : DOMAIN ExceptionBases]

\* an except clause that names FileNotFoundError alone
Caught_FileNotFoundOnly(exc) == "FileNotFoundError" \in ExceptionBases[exc]

\* except (FileNotFoundError, ConnectionError)
Caught(exc) ==
    \/ "FileNotFoundError" \in ExceptionBases[exc]
    \/ "ConnectionError" \in ExceptionBases[exc]

\* lines 641-648: the wandb calls made, the LOG records written and the
\* exception that escapes, for a process and a failure of wandb
WandB_Upload(main, f) ==
    IF ~main THEN [calls |-> <<>>, logs |-> <<>>, escaped |-> "none"]
    ELSE LET calls == IF f.at = "add_file" THEN <<"Artifact", "add_file">>
                      ELSE <<"Artifact", "add_file", "log_artifact">>
         IN  IF f.at = "none"
             THEN [calls |-> calls, logs |-> <<[level |-> "info", err |-> "none"]>>,
                   escaped |-> "none"]
             ELSE IF Caught(f.exc)
             THEN [calls |-> calls, logs |-> <<[level |-> "warning", err |-> f.exc]>>,
                   escaped |-> "none"]
             ELSE [calls |-> calls, logs |-> <<>>, escaped |-> f.exc]

WandBInit ==
    /\ phase = "constructed"
    /\ args = DefaultArgs
    /\ state = DefaultState
    /\ control \in Controls
    /\ control_in = control
    /\ returned = None
    /\ raised = "none"
    /\ is_main \in BOOLEAN
    /\ failure \in Failures
    /\ wandb_calls = <<>>
    /\ log_records = <<>>
    /\ BenchIdle /\ RunPodIdle /\ SaveIdle
    /\ GPUStatsIdle /\ TableIdle

\* lines 634-649
WandB_on_train_begin ==
    /\ phase = "constructed"
    /\ LET out == WandB_Upload(is_main, failure)
       IN  /\ wandb_calls' = out.calls
           /\ log_records' = out.logs
           /\ IF out.escaped = "none"
              THEN /\ returned' = <<control>>
                   /\ phase' = "returned"
                   /\ UNCHANGED raised
              ELSE /\ raised' = out.escaped
                   /\ phase' = "raised"
                   /\ UNCHANGED returned
    /\ UNCHANGED <<args, state, control, control_in, is_main, failure>>
    /\ UNCHANGED notWandB

WandBNext == WandB_on_train_begin

SpecWandB == WandBInit /\ [][WandBNext]_vars

\* C10: the upload is attempted on the main process only; a FileNotFoundError
\* or ConnectionError of add_file or log_artifact does not escape and a warning
\* is logged; on every process, whether the upload was not attempted,
\* succeeded or failed so, the control passed in is returned, no flag changed.
C10_UploadOnMainErrorsLogged ==
    /\ wandb_calls # <<>> => is_main
    /\ phase # "constructed" =>
          /\ is_main => SubSeq(wandb_calls, 1, 2) = <<"Artifact", "add_file">>
          /\ (is_main /\ failure.exc \in {"FileNotFoundError", "ConnectionError"}) =>
                /\ raised = "none"
                /\ log_records = <<[level |-> "warning", err |-> failure.exc]>>
          /\ (~is_main \/ failure.at = "none"
                  \/ failure.exc \in {"FileNotFoundError", "ConnectionError"}) =>
                /\ phase = "returned"
                /\ returned = <<control_in>>
                /\ control = control_in

C10_Witness ==
    /\ phase = "returned"
    /\ is_main
    /\ failure = [at |-> "log_artifact", exc |-> "ConnectionError"]
    /\ wandb_calls = <<"Artifact", "add_file", "log_artifact">>
    /\ log_records = <<[level |-> "warning", err |-> "ConnectionError"]>>
    /\ returned = <<control_in>>
    /\ control_in.should_save

(***************************************************************************)
(* GPUStatsCallback.                                                       *)
(***************************************************************************)
\* an on_step_end that logs and does not set self.logged
GPUStats_Handler_NoLatch(lg, st) ==
    IF ~lg /\ st.global_step > 1
    THEN [logged |-> lg, logs |-> TRUE]
    ELSE [logged |-> lg, logs |-> FALSE]

\* lines 230-232: whether the call logs, and self.logged as it leaves it
GPUStats_Handler(lg, st) ==
    IF ~lg /\ st.global_step > 1
    THEN [logged |-> TRUE, logs |-> TRUE]
    ELSE [logged |-> lg, logs |-> FALSE]

GPUStatsInit ==
    /\ phase = "idle"
    /\ args = DefaultArgs
    /\ state = [DefaultState EXCEPT !.max_steps = MaxSteps]
    /\ control = DefaultControl
    /\ control_in = DefaultControl
    /\ returned = None
    /\ raised = "none"
    /\ GPUStatsIdle
    /\ BenchIdle /\ RunPodIdle /\ SaveIdle /\ WandBIdle /\ TableIdle

\* lines 223-233: a call of on_step_end with state.global_step = g and the
\* control c; the callback is called with whatever step the trainer is at
\* (0 or 1 at the start, a later one when training resumes from a checkpoint)
GPUStats_on_step_end(g, c) ==
    /\ phase \in {"idle", "returned"}
    /\ Len(steps_seen) < MaxCalls
    /\ LET st == [state EXCEPT !.global_step = g]
           out == GPUStats_Handler(logged, st)
       IN  /\ state' = st
           /\ steps_seen' = Append(steps_seen, g)
           /\ logged' = out.logged
           /\ gpu_logs' = IF out.logs THEN Append(gpu_logs, Len(steps_seen) + 1)
                          ELSE gpu_logs
    /\ control_in' = c
    /\ control' = c
    /\ returned' = <<c>>
    /\ phase' = "returned"
    /\ UNCHANGED <<args, raised>>
    /\ UNCHANGED notGPUStats

GPUStatsNext == \E g \in 0..MaxSteps, c \in Controls : GPUStats_on_step_end(g, c)

SpecGPUStats == GPUStatsInit /\ [][GPUStatsNext]_vars

\* the calls so far that had global_step > 1
CallsPastFirstStep == {i \in 1..Len(steps_seen) : steps_seen[i] > 1}

\* C13: over any sequence of on_step_end calls the GPU memory usage is logged
\* at most once, by the first call with global_step > 1; logged is True from
\* then on and no later call logs; a call with global_step <= 1 never logs.
C13_LoggedAtMostOnce ==
    /\ Len(gpu_logs) <= 1
    /\ logged = (CallsPastFirstStep # {})
    /\ IF CallsPastFirstStep = {}
       THEN gpu_logs = <<>>
       ELSE gpu_logs = <<CHOOSE i \in CallsPastFirstStep :
                            \A j \in CallsPastFirstStep : i <= j>>
    /\ \A k \in 1..Len(gpu_logs) : steps_seen[gpu_logs[k]] > 1

C13_Witness ==
    /\ steps_seen = <<1, 2, 3>>
    /\ gpu_logs = <<2>>
    /\ logged

(***************************************************************************)
(* LogPredictionCallback.                                                  *)
(***************************************************************************)
\* the position ids of a sample: one sequence, a sequence and a lone token,
\* two packed sequences
PosIds == {<<0, 1>>, <<0, 1, 0>>, <<0, 1, 0, 1>>}

\* lines 488-491: the loop of find_ranges, i and start counted from 0
RECURSIVE find_ranges_from(_, _, _, _)
find_ranges_from(lst, i, start, ranges) ==
    IF i > Len(lst) - 1 THEN [start |-> start, ranges |-> ranges]
    ELSE IF lst[i + 1] = 0
         THEN find_ranges_from(lst, i + 1, i, Append(ranges, <<start, i - 1>>))
         ELSE find_ranges_from(lst, i + 1, start, ranges)

\* lines 485-494
find_ranges(lst) ==
    LET loop == find_ranges_from(lst, 1, 0, <<>>)
    IN  Append(loop.ranges, <<loop.start, Len(lst) - 1>>)

\* lines 536-539
pos_ranges(sample, with_pos) ==
    IF with_pos THEN find_ranges(sample) ELSE <<<<0, Len(sample) - 1>>>>

\* lines 541-565: the ranges of the sample that give a prompt, start = end skipped
PromptsOfSample(sample, with_pos) ==
    SelectSeq(pos_ranges(sample, with_pos), LAMBDA rg : rg[1] # rg[2])

\* lines 530-565 over the rows of a collated batch, in order
RECURSIVE PromptsOfRows(_, _)
PromptsOfRows(batch_rows, with_pos) ==
    IF batch_rows = <<>> THEN <<>>
    ELSE PromptsOfSample(Head(batch_rows), with_pos)
             \o PromptsOfRows(Tail(batch_rows), with_pos)

\* the position id the data loader pads a shorter sample with
PadPositionId == 0

\* the batch as the data loader hands it over: every sample padded to the
\* length of the longest one, so that len(input_ids_all) at line 537 is the
\* padded length
Collate(batch) ==
    LET longest == CHOOSE n \in {Len(batch[i]) : i \in 1..Len(batch)} :
                       \A i \in 1..Len(batch) : Len(batch[i]) <= n
    IN  [i \in 1..Len(batch) |->
            batch[i] \o [j \in 1..(longest - Len(batch[i])) |-> PadPositionId]]

\* lines 512-565 for the samples of one batch
PromptsOfBatch(batch, with_pos) ==
    IF batch = <<>> THEN <<>> ELSE PromptsOfRows(Collate(batch), with_pos)

\* lines 601-616: one row per prompt, numbered from row_index
AddRows(rows, first, prompts) ==
    rows \o [j \in 1..Len(prompts) |-> [id |-> first + j - 1, range |-> prompts[j]]]

\* eval_dataloader: the samples in order, eval_batch_size to a batch, the last
\* batch with what is left
EvalNumBatches == (Len(eval_dataset) + eval_batch_size - 1) \div eval_batch_size
EvalBatch(k) ==
    SubSeq(eval_dataset, (k - 1) * eval_batch_size + 1,
           Min(k * eval_batch_size, Len(eval_dataset)))

TableInit ==
    /\ eval_table_size \in 0..MaxTableSize
    /\ eval_dataset \in UNION {[1..n -> PosIds] : n \in 0..MaxSamples}
    /\ eval_batch_size \in 1..MaxBatchSize
    /\ has_position_ids \in BOOLEAN
    /\ table_main \in BOOLEAN
    /\ table_pc = "start"
    /\ batch_no = 0
    /\ row_index = 0
    /\ table_rows = <<>>
    /\ wandb_logged = <<>>
    /\ TrainerIdle
    /\ BenchIdle /\ RunPodIdle /\ SaveIdle /\ WandBIdle /\ GPUStatsIdle

\* lines 457-460 and 620-623: on_evaluate returns at once when the table size
\* is not positive or the process is not the main one; otherwise lines 497-506
Table_on_evaluate ==
    /\ table_pc = "start"
    /\ IF eval_table_size <= 0 \/ ~table_main
       THEN /\ table_pc' = "returned"
            /\ returned' = <<control>>
       ELSE /\ table_pc' = "loop"
            /\ UNCHANGED returned
    /\ UNCHANGED <<tableInputs, batch_no, row_index, table_rows, wandb_logged>>
    /\ UNCHANGED <<phase, args, state, control, control_in, raised>>
    /\ UNCHANGED notTable

\* lines 508-616: one turn of the loop over table_dataloader
Table_batch ==
    /\ table_pc = "loop"
    /\ IF batch_no = EvalNumBatches
       THEN /\ table_pc' = "log"
            /\ UNCHANGED <<batch_no, row_index, table_rows>>
       ELSE IF row_index > eval_table_size
            THEN /\ table_pc' = "log"
                 /\ UNCHANGED <<batch_no, row_index, table_rows>>
            ELSE LET prompts == PromptsOfBatch(EvalBatch(batch_no + 1), has_position_ids)
                 IN  /\ table_rows' = AddRows(table_rows, row_index, prompts)
                     /\ row_index' = row_index + Len(prompts)
                     /\ batch_no' = batch_no + 1
                     /\ UNCHANGED table_pc
    /\ UNCHANGED <<tableInputs, wandb_logged>>
    /\ UNCHANGED trainerVars
    /\ UNCHANGED notTable

\* lines 618 and 623
Table_log ==
    /\ table_pc = "log"
    /\ wandb_logged' = Append(wandb_logged, table_rows)
    /\ table_pc' = "returned"
    /\ returned' = <<control>>
    /\ UNCHANGED <<tableInputs, batch_no, row_index, table_rows>>
    /\ UNCHANGED <<phase, args, state, control, control_in, raised>>
    /\ UNCHANGED notTable

TableNext ==
    \/ Table_on_evaluate
    \/ Table_batch
    \/ Table_log

SpecTable == TableInit /\ [][TableNext]_vars

\* C14: in one on_evaluate the number of rows added to the predictions table
\* never exceeds cfg.eval_table_size, whatever the batch size and the number
\* of batches of the eval data loader.
C14_RowsWithinTableSize ==
    /\ Len(table_rows) <= eval_table_size
    /\ \A t \in 1..Len(wandb_logged) : Len(wandb_logged[t]) <= eval_table_size

====
